---- MODULE Spec2Model ----
(***************************************************************************)
(* Model of the axum price registry (src/src/main.rs).                     *)
(*                                                                         *)
(* The service state is one HashMap<Uuid, u64> behind a tokio RwLock.      *)
(* Every request runs one of five handlers in its own task; a handler      *)
(* extracts its inputs, takes the lock (read or write), touches the map    *)
(* once, drops the guard and answers.                                      *)
(*                                                                         *)
(* Library behaviour the handlers rely on is modelled by its contract:     *)
(*   - Uuid::new_v4() yields a value no earlier call has yielded (the      *)
(*     122 random bits of a version-4 UUID; uniqueness is the contract of  *)
(*     the uuid crate, it is not checked by the service);                  *)
(*   - tokio::sync::RwLock is a fair lock: waiters are queued first-in     *)
(*     first-out, a call acquires at once only when nobody is queued, and  *)
(*     a release hands the lock to the head of the queue;                  *)
(*   - axum runs the extractors (Path, State, Json) in order before the    *)
(*     handler body and answers with the rejection of the first that fails.*)
(***************************************************************************)
EXTENDS Integers, Sequences, FiniteSets, Bags, TLC

\* ------------------------------------------------------------------ bounds
NumTasks == 2        \* handler tasks that can be in flight together
MaxUuid == 2         \* size of the identifier space explored
MaxRequests == 4     \* requests dispatched in one behaviour

Tasks == 1..NumTasks
Uuids == 1..MaxUuid

\* TPrice = u64; the values explored are the ones the tests use.
TPrice == {235, 355}

NoTask == 0
NoUuid == 0
NoPrice == -1

\* ------------------------------------------------------------- HTTP status
OK == 200
BAD_REQUEST == 400
NOT_FOUND == 404
UNPROCESSABLE_ENTITY == 422

\* --------------------------------------------------------------- requests
Methods == {"get_prices", "create_price", "get_price_by_id",
            "update_price_by_id", "delete_price"}

ById == {"get_price_by_id", "update_price_by_id", "delete_price"}
WithBody == {"create_price", "update_price_by_id"}
Readers == {"get_prices", "get_price_by_id"}

\* The text of the {id} path segment: a UUID in one of the forms the uuid
\* crate parses, or text that is no UUID.
PathTexts == [form : {"hyphenated", "simple"}, bits : Uuids]
               \cup {[form |-> "garbage", bits |-> NoUuid]}

\* Request bodies: {"price": n}, JSON of another shape, or no JSON at all.
Bodies == [kind : {"price"}, price : TPrice]
            \cup {[kind |-> "other_shape", price |-> NoPrice],
                  [kind |-> "not_json", price |-> NoPrice]}

\* Uuid's Display: the hyphenated form.
UuidToString(u) == [form |-> "hyphenated", bits |-> u]

\* Path<Uuid>: Uuid's FromStr accepts the hyphenated and the simple form.
ParseUuid(s) ==
    IF s.form \in {"hyphenated", "simple"} /\ s.bits \in Uuids
    THEN [ok |-> TRUE, id |-> s.bits]
    ELSE [ok |-> FALSE, id |-> NoUuid]

\* u64's Display: the decimal digits, most significant first.
RECURSIVE U64ToString(_)
U64ToString(n) ==
    IF n < 10 THEN <<n>> ELSE Append(U64ToString(n \div 10), n % 10)

\* Json<PriceDto>: the body deserialized into PriceDto { price: u64 }.
ParseBody(b) ==
    CASE b.kind = "price" /\ b.price \in TPrice -> [status |-> OK, price |-> b.price]
      [] b.kind = "not_json" -> [status |-> BAD_REQUEST, price |-> NoPrice]
      [] OTHER -> [status |-> UNPROCESSABLE_ENTITY, price |-> NoPrice]

Response(status, body) == [status |-> status, body |-> body]
NoResponse == Response(0, <<>>)

\* ------------------------------------------------------------------- state
VARIABLES
    prices,      \* the HashMap<Uuid, TPrice>: a function on the ids present
    minted,      \* the values Uuid::new_v4() has yielded so far
    readers,     \* tasks holding a read guard
    writer,      \* the task holding the write guard, or NoTask
    waitq,       \* tasks queued for the lock, first in first out
    task,        \* per task: where its handler stands and its locals
    nreq,        \* requests dispatched so far
    returned,    \* history: identifier texts create_price has answered with
    lastKind,    \* history: per identifier as clients name it, the last
                 \* write that succeeded on it
    lastVal,     \* history: the price the request of that write supplied
    ncreate,     \* history: create_price bodies entered so far
    burst        \* history: the first two requests were create_price
                 \* bodies, the second entered before the first inserted

vars == <<prices, minted, readers, writer, waitq, task, nreq,
          returned, lastKind, lastVal, ncreate, burst>>

lockVars == <<readers, writer, waitq>>
histVars == <<returned, lastKind, lastVal, ncreate, burst>>

IdleTask == [pc |-> "idle", op |-> "none", id |-> NoUuid, price |-> NoPrice,
             uuid |-> NoUuid, resp |-> NoResponse]

Init ==
    /\ prices = <<>>
    /\ minted = {}
    /\ readers = {}
    /\ writer = NoTask
    /\ waitq = <<>>
    /\ task = [t \in Tasks |-> IdleTask]
    /\ nreq = 0
    /\ returned = {}
    /\ lastKind = [u \in Uuids |-> "none"]
    /\ lastVal = [u \in Uuids |-> NoPrice]
    /\ ncreate = 0
    /\ burst = FALSE

\* ----------------------------------------------------------------- HashMap
Has(m, k) == k \in DOMAIN m

\* Faulty variant: the new entry replaces the table.
Insert_Alone(m, k, v) == [x \in {k} |-> v]

Insert(m, k, v) == [x \in DOMAIN m \cup {k} |-> IF x = k THEN v ELSE m[x]]

\* Faulty variant: the value is assigned to a copy, the entry keeps its own.
SetValue_Copy(m, k, v) == m

\* Faulty variant: the entry keeps the larger of its value and the new one.
SetValue_Max(m, k, v) == [m EXCEPT ![k] = IF m[k] > v THEN m[k] ELSE v]

SetValue(m, k, v) == [m EXCEPT ![k] = v]

\* Faulty variant: the entry is looked up but left in the table.
Remove_Peek(m, k) == m

\* Faulty variant: the table is cleared.
Remove_Clear(m, k) == <<>>

Remove(m, k) == [x \in DOMAIN m \ {k} |-> m[x]]

\* values(): every value once per entry, in some order.
RECURSIVE Orders(_)
Orders(S) ==
    IF S = {} THEN {<<>>}
    ELSE UNION {{<<x>> \o s : s \in Orders(S \ {x})} : x \in S}

\* Faulty variant: the values collected as a set, duplicates lost.
Values_Set(m) == Orders({m[u] : u \in DOMAIN m})

Values(m) == {[i \in 1..Len(o) |-> m[o[i]]] : o \in Orders(DOMAIN m)}

\* ------------------------------------------------------------------ RwLock
\* Faulty variant: write() is served as read() is, with a shared guard.
WantsWrite_Never(t) == FALSE

WantsWrite(t) == task[t].op \notin Readers

\* A call to read()/write() acquires at once only when nobody is queued.
\* Faulty variant: a writer is admitted while readers hold the lock.
CanAcquire_OverReaders(m) == waitq = <<>> /\ writer = NoTask

\* Faulty variant: a reader is admitted whenever no writer holds the lock,
\* whoever is queued.
CanAcquire_ReadersFirst(m) ==
    /\ writer = NoTask
    /\ m \notin Readers => readers = {} /\ waitq = <<>>

CanAcquire(m) ==
    /\ waitq = <<>>
    /\ writer = NoTask
    /\ m \notin Readers => readers = {}

\* Faulty variant: a queued writer is served though readers still hold
\* the lock.
Grant_PastReaders(r, w, q) ==
    IF q = <<>> \/ w # NoTask THEN [readers |-> r, writer |-> w, waitq |-> q]
    ELSE IF WantsWrite(Head(q))
         THEN [readers |-> r, writer |-> Head(q), waitq |-> Tail(q)]
         ELSE [readers |-> r \cup {Head(q)}, writer |-> w, waitq |-> Tail(q)]

\* The lock after a release: the queue's head is served while it fits.
RECURSIVE Grant(_, _, _)
Grant(r, w, q) ==
    IF q = <<>> \/ w # NoTask THEN [readers |-> r, writer |-> w, waitq |-> q]
    ELSE IF WantsWrite(Head(q))
         THEN IF r = {} THEN [readers |-> r, writer |-> Head(q), waitq |-> Tail(q)]
                        ELSE [readers |-> r, writer |-> w, waitq |-> q]
         ELSE Grant(r \cup {Head(q)}, w, Tail(q))

\* Faulty variant: a read guard is never given back.
Drop_KeepShared(t) == Grant(readers, IF writer = t THEN NoTask ELSE writer, waitq)

\* Dropping t's guard.
Drop(t) == Grant(readers \ {t}, IF writer = t THEN NoTask ELSE writer, waitq)

Holds(t) == t \in readers \/ writer = t

\* Task t leaves its table access: its locals become `mine`, and the tasks
\* the release serves now hold the lock.
Leave(t, mine) ==
    LET after == Drop(t) IN
    /\ readers' = after.readers
    /\ writer' = after.writer
    /\ waitq' = after.waitq
    /\ task' = [u \in DOMAIN task |->
                  IF u = t THEN mine
                  ELSE IF u \in after.readers \/ u = after.writer
                       THEN [task[u] EXCEPT !.pc = "locked"]
                       ELSE task[u]]

\* ---------------------------------------------------------------- dispatch
\* Faulty variant: the body is taken as it comes, parsed or not.
Extract_PathOnly(m, path, body) ==
    LET p == IF m \in ById THEN ParseUuid(path) ELSE [ok |-> TRUE, id |-> NoUuid]
    IN  IF ~p.ok THEN [status |-> BAD_REQUEST, id |-> NoUuid, price |-> NoPrice]
        ELSE [status |-> OK, id |-> p.id, price |-> body.price]

\* The extractors run: Path first, Json last.
Extract(m, path, body) ==
    LET p == IF m \in ById THEN ParseUuid(path) ELSE [ok |-> TRUE, id |-> NoUuid]
        b == IF m \in WithBody THEN ParseBody(body) ELSE [status |-> OK, price |-> NoPrice]
    IN  IF ~p.ok THEN [status |-> BAD_REQUEST, id |-> NoUuid, price |-> NoPrice]
        ELSE [status |-> b.status, id |-> p.id, price |-> b.price]

\* let uuid = Uuid::new_v4(): a value no earlier call has yielded.
\* Identifiers are numbered in the order new_v4 yields them.
\* Faulty variant: any value, whatever was yielded before.
NewV4_Any == Uuids

\* Faulty variant: a value not in the table now, though yielded before.
NewV4_Unused ==
    {u \in Uuids \ DOMAIN prices : \A v \in Uuids \ DOMAIN prices : u <= v}

NewV4 == {u \in Uuids \ minted : \A v \in Uuids \ minted : u <= v}

\* prices.read().await / prices.write().await by task t for handler m: the
\* guard at once, or a place in the queue.
Acquire(t, m) ==
    IF CanAcquire(m)
    THEN /\ readers' = IF m \in Readers THEN readers \cup {t} ELSE readers
         /\ writer' = IF m \in Readers THEN writer ELSE t
         /\ waitq' = waitq
    ELSE /\ waitq' = Append(waitq, t)
         /\ UNCHANGED <<readers, writer>>

\* The inputs a request for handler m carries.
PathsOf(m) == IF m \in ById THEN PathTexts ELSE {[form |-> "garbage", bits |-> NoUuid]}
BodiesOf(m) == IF m \in WithBody THEN Bodies ELSE {[kind |-> "not_json", price |-> NoPrice]}

\* Task slots are interchangeable: a request takes the lowest free one.
FreeTask(t) == task[t].pc = "idle" /\ \A u \in DOMAIN task : u < t => task[u].pc # "idle"

\* A request whose extractors reject it is answered without the handler
\* body running.
RejectWith(t, m, path, body) ==
    /\ FreeTask(t)
    /\ nreq < MaxRequests
    /\ LET e == Extract(m, path, body) IN
         /\ e.status # OK
         /\ task' = [task EXCEPT ![t] = [IdleTask EXCEPT !.pc = "respond", !.op = m,
                                            !.resp = Response(e.status, <<>>)]]
    /\ nreq' = nreq + 1
    /\ UNCHANGED <<prices, minted, lockVars, histVars>>

Reject(t) ==
    /\ FreeTask(t)
    /\ nreq < MaxRequests
    /\ \E m \in Methods : \E path \in PathsOf(m), body \in BodiesOf(m) :
         RejectWith(t, m, path, body)

\* Task x runs create_price and has not inserted yet.
InCreate(x) == task[x].op = "create_price" /\ task[x].pc \in {"waiting", "locked"}

\* A request whose extractors succeed: the handler body runs from its first
\* statement to its first await, the call of read() or write(), which
\* create_price reaches with its uuid made.
DispatchWith(t, m, path, body) ==
    /\ FreeTask(t)
    /\ nreq < MaxRequests
    /\ LET e == Extract(m, path, body)
             pc == IF CanAcquire(m) THEN "locked" ELSE "waiting"
             mine == [IdleTask EXCEPT !.pc = pc, !.op = m, !.id = e.id, !.price = e.price]
         IN
         /\ e.status = OK
         /\ Acquire(t, m)
         /\ IF m = "create_price"
            THEN \E u \in NewV4 :
                   /\ task' = [task EXCEPT ![t] = [mine EXCEPT !.uuid = u]]
                   /\ minted' = minted \cup {u}
                   /\ ncreate' = ncreate + 1
                   /\ burst' = (burst \/ (nreq = 1 /\ \E x \in DOMAIN task : InCreate(x)))
            ELSE /\ task' = [task EXCEPT ![t] = mine]
                 /\ UNCHANGED <<minted, ncreate, burst>>
    /\ nreq' = nreq + 1
    /\ UNCHANGED <<prices, returned, lastKind, lastVal>>

Dispatch(t) ==
    /\ FreeTask(t)
    /\ nreq < MaxRequests
    /\ \E m \in Methods : \E path \in PathsOf(m), body \in BodiesOf(m) :
         DispatchWith(t, m, path, body)

\* ---------------------------------------------------------------- handlers
Locked(t, m) == task[t].pc = "locked" /\ task[t].op = m /\ Holds(t)

\* The handler returns r; its locals are gone.
Answer(t, r) == [IdleTask EXCEPT !.pc = "respond", !.op = task[t].op, !.resp = r]

get_prices(t) ==
    /\ Locked(t, "get_prices")
    /\ \E vs \in Values(prices) : Leave(t, Answer(t, Response(OK, vs)))
    /\ UNCHANGED <<prices, minted, nreq, histVars>>

\* History h with v noted for the identifier whose text is s: clients name
\* an identifier by its text.
Noted(h, s, v) ==
    [i \in DOMAIN h |-> IF ParseUuid(s).ok /\ ParseUuid(s).id = i THEN v ELSE h[i]]

create_price(t) ==
    /\ Locked(t, "create_price")
    /\ prices' = Insert(prices, task[t].uuid, task[t].price)
    /\ Leave(t, Answer(t, Response(OK, UuidToString(task[t].uuid))))
    /\ lastKind' = Noted(lastKind, UuidToString(task[t].uuid), "create")
    /\ lastVal' = Noted(lastVal, UuidToString(task[t].uuid), task[t].price)
    /\ UNCHANGED <<minted, nreq, returned, ncreate, burst>>

\* Faulty variant: a missing entry is answered with the default price.
get_price_by_id_Default(t) ==
    /\ Locked(t, "get_price_by_id")
    /\ Leave(t, Answer(t, IF Has(prices, task[t].id)
                          THEN Response(OK, U64ToString(prices[task[t].id]))
                          ELSE Response(OK, U64ToString(0))))
    /\ UNCHANGED <<prices, minted, nreq, histVars>>

get_price_by_id(t) ==
    /\ Locked(t, "get_price_by_id")
    /\ Leave(t, Answer(t, IF Has(prices, task[t].id)
                          THEN Response(OK, U64ToString(prices[task[t].id]))
                          ELSE Response(NOT_FOUND, <<>>)))
    /\ UNCHANGED <<prices, minted, nreq, histVars>>

\* Faulty variant: a missing entry is inserted.
update_price_by_id_Upsert(t) ==
    /\ Locked(t, "update_price_by_id")
    /\ prices' = Insert(prices, task[t].id, task[t].price)
    /\ Leave(t, Answer(t, Response(OK, <<>>)))
    /\ lastKind' = [lastKind EXCEPT ![task[t].id] = "update"]
    /\ lastVal' = [lastVal EXCEPT ![task[t].id] = task[t].price]
    /\ UNCHANGED <<minted, nreq, returned, ncreate, burst>>

\* Faulty variant: the answer is OK whether or not the entry was found.
update_price_by_id_Blind(t) ==
    /\ Locked(t, "update_price_by_id")
    /\ IF Has(prices, task[t].id)
       THEN /\ prices' = SetValue(prices, task[t].id, task[t].price)
            /\ Leave(t, Answer(t, Response(OK, <<>>)))
            /\ lastKind' = [lastKind EXCEPT ![task[t].id] = "update"]
            /\ lastVal' = [lastVal EXCEPT ![task[t].id] = task[t].price]
       ELSE /\ Leave(t, Answer(t, Response(OK, <<>>)))
            /\ UNCHANGED <<prices, lastKind, lastVal>>
    /\ UNCHANGED <<minted, nreq, returned, ncreate, burst>>

update_price_by_id(t) ==
    /\ Locked(t, "update_price_by_id")
    /\ IF Has(prices, task[t].id)
       THEN /\ prices' = SetValue(prices, task[t].id, task[t].price)
            /\ Leave(t, Answer(t, Response(OK, <<>>)))
            /\ lastKind' = [lastKind EXCEPT ![task[t].id] = "update"]
            /\ lastVal' = [lastVal EXCEPT ![task[t].id] = task[t].price]
       ELSE /\ Leave(t, Answer(t, Response(NOT_FOUND, <<>>)))
            /\ UNCHANGED <<prices, lastKind, lastVal>>
    /\ UNCHANGED <<minted, nreq, returned, ncreate, burst>>

\* Faulty variant: removing a missing entry counts as success.
delete_price_Silent(t) ==
    /\ Locked(t, "delete_price")
    /\ prices' = Remove(prices, task[t].id)
    /\ Leave(t, Answer(t, Response(OK, <<>>)))
    /\ lastKind' = [lastKind EXCEPT ![task[t].id] = "delete"]
    /\ lastVal' = [lastVal EXCEPT ![task[t].id] = NoPrice]
    /\ UNCHANGED <<minted, nreq, returned, ncreate, burst>>

\* Faulty variant: the answer is made from a lookup after the removal.
delete_price_LateLookup(t) ==
    /\ Locked(t, "delete_price")
    /\ IF Has(prices, task[t].id)
       THEN /\ prices' = Remove(prices, task[t].id)
            /\ Leave(t, Answer(t, Response(NOT_FOUND, <<>>)))
            /\ lastKind' = [lastKind EXCEPT ![task[t].id] = "delete"]
            /\ lastVal' = [lastVal EXCEPT ![task[t].id] = NoPrice]
       ELSE /\ Leave(t, Answer(t, Response(NOT_FOUND, <<>>)))
            /\ UNCHANGED <<prices, lastKind, lastVal>>
    /\ UNCHANGED <<minted, nreq, returned, ncreate, burst>>

delete_price(t) ==
    /\ Locked(t, "delete_price")
    /\ IF Has(prices, task[t].id)
       THEN /\ prices' = Remove(prices, task[t].id)
            /\ Leave(t, Answer(t, Response(OK, <<>>)))
            /\ lastKind' = [lastKind EXCEPT ![task[t].id] = "delete"]
            /\ lastVal' = [lastVal EXCEPT ![task[t].id] = NoPrice]
       ELSE /\ Leave(t, Answer(t, Response(NOT_FOUND, <<>>)))
            /\ UNCHANGED <<prices, lastKind, lastVal>>
    /\ UNCHANGED <<minted, nreq, returned, ncreate, burst>>

\* The response leaves the service; the task is free for the next request.
Respond(t) ==
    /\ task[t].pc = "respond"
    /\ task' = [task EXCEPT ![t] = IdleTask]
    /\ returned' = IF task[t].op = "create_price" /\ task[t].resp.status = OK
                   THEN returned \cup {task[t].resp.body}
                   ELSE returned
    /\ UNCHANGED <<prices, minted, lockVars, nreq, lastKind, lastVal, ncreate, burst>>

Next ==
    \E t \in Tasks :
        \/ Reject(t)
        \/ Dispatch(t)
        \/ get_prices(t)
        \/ create_price(t)
        \/ get_price_by_id(t)
        \/ update_price_by_id(t)
        \/ delete_price(t)
        \/ Respond(t)

Spec == Init /\ [][Next]_vars

\* --------------------------------------------------------------- scheduling
\* The service with one task more, so that a request can arrive while one
\* task holds the lock and another is queued for it.
LiveTasks == 1..(NumTasks + 1)

LiveInit ==
    /\ prices = <<>>
    /\ minted = {}
    /\ readers = {}
    /\ writer = NoTask
    /\ waitq = <<>>
    /\ task = [t \in LiveTasks |-> IdleTask]
    /\ nreq = 0
    /\ returned = {}
    /\ lastKind = [u \in Uuids |-> "none"]
    /\ lastVal = [u \in Uuids |-> NoPrice]
    /\ ncreate = 0
    /\ burst = FALSE

LiveNext ==
    \E t \in LiveTasks :
        \/ Reject(t)
        \/ Dispatch(t)
        \/ get_prices(t)
        \/ create_price(t)
        \/ get_price_by_id(t)
        \/ update_price_by_id(t)
        \/ delete_price(t)
        \/ Respond(t)

\* What the runtime does for task t without anything arriving: a task that
\* holds its guard, or has its answer, is runnable, and tokio polls every
\* runnable task in the end.
Poll(t) ==
    \/ get_prices(t)
    \/ create_price(t)
    \/ get_price_by_id(t)
    \/ update_price_by_id(t)
    \/ delete_price(t)
    \/ Respond(t)

LiveSpec ==
    LiveInit /\ [][LiveNext]_vars /\ \A t \in LiveTasks : WF_vars(Poll(t))

\* ================================================================== claims
\* Steps of a behaviour: task t performs the table access of handler m, and
\* the answer of task t's handler m leaves the service.
Access(t, m) ==
    task[t].pc = "locked" /\ task[t].op = m /\ task'[t].pc = "respond"

Delivered(t, m) ==
    task[t].pc = "respond" /\ task[t].op = m /\ task'[t].pc = "idle"

\* The identifier a text names.
Named(s) == ParseUuid(s).id

\* ---------------------------------------------------------------------- C1
\* C1: every identifier create_price answers with differs from every
\* identifier answered earlier, and a get_price_by_id of an identifier whose
\* last successful write is its create answers 200 with exactly the decimal
\* text of the price that create was given.
C1_CreateThenGet ==
    [][\A t \in Tasks :
         /\ Delivered(t, "create_price") /\ task[t].resp.status = OK
              => /\ task[t].resp.body \notin returned
                 /\ ParseUuid(task[t].resp.body).ok
                 /\ \A s \in returned : Named(s) # Named(task[t].resp.body)
         /\ Access(t, "get_price_by_id") /\ lastKind[task[t].id] = "create"
              => task'[t].resp = Response(OK, U64ToString(lastVal[task[t].id]))
      ]_vars

\* Two creates have answered, and a get of the second identifier, created
\* with 235 and not written since, is about to answer.
C1_Witness ==
    /\ Cardinality(returned) = 2
    /\ \E t \in Tasks :
         /\ task[t].op = "get_price_by_id" /\ task[t].pc = "respond"
         /\ task[t].resp = Response(OK, <<2, 3, 5>>)
    /\ \E u \in Uuids :
         /\ lastKind[u] = "create" /\ lastVal[u] = 235
         /\ UuidToString(u) \in returned
         /\ \E v \in Uuids \ {u} : v < u /\ lastKind[v] = "create" /\ lastVal[v] = 355

\* ---------------------------------------------------------------------- C2
\* C2 as stated: every identifier in the table has been answered by a create
\* before, and no delete has succeeded on it since.
C2_AsStated ==
    \A u \in DOMAIN prices :
        /\ \E s \in returned : Named(s) = u
        /\ lastKind[u] # "delete"

\* The creates whose answer has not left the service yet.
Answering ==
    {task[t].resp.body : t \in {x \in Tasks : /\ task[x].pc = "respond"
                                              /\ task[x].op = "create_price"
                                              /\ task[x].resp.status = OK}}

\* C2: every identifier in the table was made and inserted by a create that
\* has answered with it or is about to (the insert comes before the answer),
\* and no delete has succeeded on it since that create.
C2_TableFromCreates ==
    \A u \in DOMAIN prices :
        /\ u \in minted
        /\ \E s \in returned \cup Answering : Named(s) = u
        /\ lastKind[u] \in {"create", "update"}

\* An identifier is in the table while the create that inserted it has not
\* answered yet, next to one that was answered and later deleted.
C2_Witness ==
    /\ \E u \in DOMAIN prices : UuidToString(u) \in Answering \ returned
    /\ \E u \in Uuids : lastKind[u] = "delete" /\ UuidToString(u) \in returned

\* ---------------------------------------------------------------------- C3
\* C3: a successful update of an identifier to p answers 200, keeps the set
\* of identifiers in the table, and a get of that identifier with no other
\* write to it in between answers 200 with the decimal text of p, whatever
\* the value before.
C3_UpdateThenGet ==
    [][\A t \in Tasks :
         /\ Access(t, "update_price_by_id") /\ Has(prices, task[t].id)
              => /\ task'[t].resp = Response(OK, <<>>)
                 /\ DOMAIN prices' = DOMAIN prices
                 /\ lastKind'[task[t].id] = "update"
                 /\ lastVal'[task[t].id] = task[t].price
         /\ Access(t, "get_price_by_id") /\ lastKind[task[t].id] = "update"
              => task'[t].resp = Response(OK, U64ToString(lastVal[task[t].id]))
      ]_vars

\* A record created with 355 and updated to 235 is read back as "235".
C3_Witness ==
    \E t \in Tasks, u \in Uuids :
        /\ task[t].op = "get_price_by_id" /\ task[t].pc = "respond"
        /\ task[t].resp = Response(OK, <<2, 3, 5>>)
        /\ lastKind[u] = "update" /\ lastVal[u] = 235
        /\ \A v \in Uuids \ {u} : lastKind[v] = "none"

\* ---------------------------------------------------------------------- C4
\* C4: once a delete has succeeded on an identifier, the identifier stays
\* deleted and absent from the table, and every get, update and delete of
\* it answers 404, whatever else runs in between.
C4_DeletedForGood ==
    [][/\ \A u \in Uuids :
            lastKind[u] = "delete"
              => u \notin DOMAIN prices /\ lastKind'[u] = "delete"
                                        /\ u \notin DOMAIN prices'
       /\ \A t \in Tasks, m \in ById :
            Access(t, m) /\ lastKind[task[t].id] = "delete"
              => task'[t].resp = Response(NOT_FOUND, <<>>)
      ]_vars

\* After a delete of one identifier and the create of a later one, a get of
\* the deleted identifier holds the read guard: its answer is the next step.
C4_Witness ==
    \E t \in Tasks, u, v \in Uuids :
        /\ lastKind[u] = "delete" /\ lastKind[v] = "create" /\ u < v
        /\ UuidToString(v) \in returned
        /\ task[t].op = "get_price_by_id" /\ task[t].pc = "locked"
        /\ task[t].id = u

\* ---------------------------------------------------------------------- C5
\* C5: a delete of an identifier that is not in the table answers 404 and
\* leaves the table as it is; a delete of one that is in the table answers
\* 200 and removes that entry and no other.
C5_Delete ==
    [][\A t \in Tasks :
         Access(t, "delete_price") =>
           IF task[t].id \in DOMAIN prices
           THEN /\ task'[t].resp = Response(OK, <<>>)
                /\ DOMAIN prices' = DOMAIN prices \ {task[t].id}
                /\ \A u \in DOMAIN prices' : prices'[u] = prices[u]
           ELSE /\ task'[t].resp = Response(NOT_FOUND, <<>>)
                /\ prices' = prices
      ]_vars

\* A second delete of a deleted identifier has been answered 404 while
\* another entry is still in the table.
C5_Witness ==
    \E t \in Tasks, u \in Uuids :
        /\ task[t].op = "delete_price" /\ task[t].pc = "respond"
        /\ task[t].resp = Response(NOT_FOUND, <<>>)
        /\ lastKind[u] = "delete"
        /\ DOMAIN prices # {}
        /\ \A v \in Uuids \ {u} : lastKind[v] = "create"

\* ---------------------------------------------------------------------- C6
\* C6: an update of an identifier that is not in the table answers 404 and
\* leaves the table as it is: no entry is inserted, none is changed.
C6_UpdateMissing ==
    [][\A t \in Tasks :
         Access(t, "update_price_by_id") /\ task[t].id \notin DOMAIN prices
           => /\ task'[t].resp = Response(NOT_FOUND, <<>>)
              /\ prices' = prices
      ]_vars

\* An update has been answered 404 while the table holds an entry and an
\* identifier that was never created is still absent.
C6_Witness ==
    \E t \in Tasks, u \in Uuids :
        /\ task[t].op = "update_price_by_id" /\ task[t].pc = "respond"
        /\ task[t].resp = Response(NOT_FOUND, <<>>)
        /\ lastKind[u] = "none" /\ u \notin DOMAIN prices
        /\ DOMAIN prices # {}
        /\ \A v \in Uuids \ {u} : lastKind[v] = "create"

\* ---------------------------------------------------------------------- C7
\* C7: a get of an identifier on which no create has succeeded answers 404
\* with an empty body, and no get, found or not, changes the table.
C7_Get ==
    [][\A t \in Tasks :
         Access(t, "get_price_by_id")
           => /\ prices' = prices
              /\ lastKind[task[t].id] = "none"
                   => task'[t].resp = Response(NOT_FOUND, <<>>)
      ]_vars

\* A get has been answered 404 with an empty body while the table holds an
\* entry, nothing was ever deleted and one identifier was never created.
C7_Witness ==
    \E t \in Tasks, u \in Uuids :
        /\ task[t].op = "get_price_by_id" /\ task[t].pc = "respond"
        /\ task[t].resp = Response(NOT_FOUND, <<>>)
        /\ lastKind[u] = "none"
        /\ DOMAIN prices # {}
        /\ \A v \in Uuids \ {u} : lastKind[v] = "create"

\* ---------------------------------------------------------------------- C8
\* How often price p occurs in the sequence vs, and in the table m.
Occurrences(vs, p) == Cardinality({i \in 1..Len(vs) : vs[i] = p})
Entries(m, p) == Cardinality({u \in DOMAIN m : m[u] = p})

\* C8: a list answers 200 with one value per entry of the table, each price
\* as often as entries hold it, leaves the table as it is, and no list
\* request is answered with anything but 200.
C8_List ==
    [][\A t \in Tasks :
         /\ Access(t, "get_prices")
              => /\ prices' = prices
                 /\ task'[t].resp.status = OK
                 /\ Len(task'[t].resp.body) = Cardinality(DOMAIN prices)
                 /\ \A p \in TPrice :
                      Occurrences(task'[t].resp.body, p) = Entries(prices, p)
         /\ task'[t].op = "get_prices" /\ task'[t].pc = "respond"
              => task'[t].resp.status = OK
      ]_vars

\* A list of a table with two entries of the same price has answered with
\* that price twice.
C8_Witness ==
    \E t \in Tasks :
        /\ task[t].op = "get_prices" /\ task[t].pc = "respond"
        /\ task[t].resp = Response(OK, <<355, 355>>)

\* ---------------------------------------------------------------------- C9
\* The prices the creates were given, as a bag, when nothing else has
\* written: one price per identifier created.
Supplied == {u \in Uuids : lastKind[u] = "create"}
SuppliedCount(p) == Cardinality({u \in Supplied : lastVal[u] = p})

\* C9: every create that runs answers 200 with an identifier of its own,
\* and when all creates entered so far have inserted and no update or delete
\* has succeeded, a list answers with as many values as creates were
\* entered: the prices they were given, each as often as it was given.
C9_ConcurrentCreates ==
    [][\A t \in Tasks :
         /\ Access(t, "create_price")
              => /\ task'[t].resp.status = OK
                 /\ task'[t].resp.body \notin returned \cup Answering
                 /\ \A x \in Tasks \ {t} :
                      InCreate(x) => task[x].uuid # task[t].uuid
         /\ ( /\ Access(t, "get_prices")
              /\ \A x \in Tasks : ~InCreate(x)
              /\ \A u \in Uuids : lastKind[u] \in {"none", "create"} )
              => /\ Len(task'[t].resp.body) = ncreate
                 /\ Cardinality(Supplied) = ncreate
                 /\ \A p \in TPrice :
                      Occurrences(task'[t].resp.body, p) = SuppliedCount(p)
      ]_vars

\* Two creates, the second entered before the first inserted, have both
\* answered, and the list that followed them answers with both prices.
C9_Witness ==
    /\ burst /\ ncreate = 2 /\ nreq = 3
    /\ Cardinality(returned) = 2
    /\ \E t \in Tasks :
         /\ task[t].op = "get_prices" /\ task[t].pc = "respond"
         /\ task[t].resp.status = OK
         /\ Len(task[t].resp.body) = 2
         /\ task[t].resp.body[1] # task[t].resp.body[2]

\* --------------------------------------------------------------------- C10
\* The tasks inside their table access, guard in hand.
Accessing == {t \in Tasks : task[t].pc = "locked"}

\* C10: a task inside a create, update or delete is the only task inside a
\* table access; the tasks inside an access are the tasks holding a guard.
C10_Exclusion ==
    /\ \A t \in Accessing :
         task[t].op \notin Readers => Accessing = {t}
    /\ \A t \in Tasks : t \in Accessing <=> Holds(t)
    /\ writer # NoTask => readers = {}

\* Two reads hold the read guard together.
C10_Witness ==
    \E t, u \in Accessing :
        /\ t # u
        /\ task[t].op = "get_prices" /\ task[u].op = "get_price_by_id"
        /\ {t, u} \subseteq readers

\* --------------------------------------------------------------------- C11
\* Where task t stands in the queue for the lock; 0 when it is not queued.
Place(t) ==
    IF \E i \in 1..Len(waitq) : waitq[i] = t
    THEN CHOOSE i \in 1..Len(waitq) : waitq[i] = t
    ELSE 0

\* No task is handed the lock past a task that is queued: whoever gets a
\* guard in a step that leaves t waiting was queued ahead of t.
NoOvertaking ==
    \A t, u \in LiveTasks :
        Place(t) > 0 /\ ~Holds(t)' /\ ~Holds(u) /\ Holds(u)'
          => Place(u) > 0 /\ Place(u) < Place(t)

\* C11: every request that was dispatched is answered in the end, whatever
\* arrives meanwhile: a task that waits for the lock gets it, a task that
\* holds it leaves it, and nobody who asks for the lock later is served
\* before a task already queued, so readers that keep arriving cannot hold
\* up a queued writer.
C11_EveryRequestCompletes ==
    /\ \A t \in LiveTasks : (task[t].pc # "idle") ~> (task[t].pc = "idle")
    /\ \A t \in LiveTasks : (task[t].pc = "waiting") ~> (task[t].pc = "locked")
    /\ [][NoOvertaking]_vars

\* A reader holds the lock, a writer is queued for it, and a reader that
\* arrived after the writer is queued behind it.
C11_Witness ==
    \E r, w, l \in LiveTasks :
        /\ task[r].op \in Readers /\ task[r].pc = "locked" /\ r \in readers
        /\ task[w].op \notin Readers /\ task[w].pc = "waiting"
        /\ task[l].op \in Readers /\ task[l].pc = "waiting"
        /\ waitq = <<w, l>>

\* --------------------------------------------------------------------- C12
\* The request (m, path, body) carries something that does not parse.
Unparsable(m, path, body) ==
    \/ m \in ById /\ ~ParseUuid(path).ok
    \/ m \in WithBody /\ ~(body.kind = "price" /\ body.price \in TPrice)

\* Task t takes the request (m, path, body).
Request(t, m, path, body) ==
    RejectWith(t, m, path, body) \/ DispatchWith(t, m, path, body)

\* Task t answers the request it takes with one of the statuses in codes,
\* and neither the lock nor the table knows of it.
Refused(t, codes) ==
    /\ task'[t].pc = "respond"
    /\ task'[t].resp.status \in codes
    /\ task'[t].resp.body = <<>>
    /\ ~Holds(t)' /\ Place(t)' = 0
    /\ UNCHANGED <<prices, lockVars>>

Written ==
    [u \in {x \in Uuids : lastKind[x] \in {"create", "update"}} |-> lastVal[u]]

\* Tasks that hold a read guard.
Reading == {t \in Tasks : task[t].op \in Readers /\ Holds(t)}

\* C13: a list or a get answers from the table that all the writes
\* serialized before its access produce, each applied in full, so it misses
\* no write that completed before the read arrived; and the table does not
\* change while a read guard is held, so no read meets a write half done and
\* reads that hold the lock together see one table.
C13_ReadsSeeWrites ==
    /\ [][\A t \in Tasks :
            Access(t, "get_price_by_id")
              => task'[t].resp =
                   IF task[t].id \in DOMAIN Written
                   THEN Response(OK, U64ToString(Written[task[t].id]))
                   ELSE Response(NOT_FOUND, <<>>)]_vars
    /\ [][\A t \in Tasks :
            Access(t, "get_prices")
              => /\ task'[t].resp.status = OK
                 /\ task'[t].resp.body \in Values(Written)]_vars
    /\ [][Reading # {} => prices' = prices /\ Written' = Written]_vars

\* Two reads hold the lock together over a table that a create and an
\* update have written.
C13_Witness ==
    /\ Cardinality(Reading) = 2
    /\ \A t \in Reading : task[t].pc = "locked"
    /\ \E u \in DOMAIN prices : lastKind[u] = "update"

\* --------------------------------------------------------------------- C14
\* The sequential map: operation op with its arguments, executed in one step
\* on table m, may leave table m2 and answer r.
Sequential(m, op, id, price, uuid, m2, r) ==
    CASE op = "get_prices" ->
           /\ m2 = m
           /\ r.status = OK
           /\ Len(r.body) = Cardinality(DOMAIN m)
           /\ \A p \in TPrice : Occurrences(r.body, p) = Entries(m, p)
      [] op = "create_price" ->
           /\ m2 = [x \in DOMAIN m \cup {uuid} |-> IF x = uuid THEN price ELSE m[x]]
           /\ r = [status |-> OK, body |-> [form |-> "hyphenated", bits |-> uuid]]
      [] op = "get_price_by_id" ->
           /\ m2 = m
           /\ r = IF id \in DOMAIN m THEN [status |-> OK, body |-> U64ToString(m[id])]
                  ELSE [status |-> NOT_FOUND, body |-> <<>>]
      [] op = "update_price_by_id" ->
           IF id \in DOMAIN m
           THEN m2 = [m EXCEPT ![id] = price] /\ r = [status |-> OK, body |-> <<>>]
           ELSE m2 = m /\ r = [status |-> NOT_FOUND, body |-> <<>>]
      [] op = "delete_price" ->
           IF id \in DOMAIN m
           THEN m2 = [x \in DOMAIN m \ {id} |-> m[x]] /\ r = [status |-> OK, body |-> <<>>]
           ELSE m2 = m /\ r = [status |-> NOT_FOUND, body |-> <<>>]

\* Task t makes its table access in this step.
Accesses(t) == task[t].pc = "locked" /\ task'[t].pc = "respond"

\* C14: the service behaves as the sequential map does when it executes
\* each operation in one step at the moment the operation gets the lock.
\* From the moment a task holds the lock to its own access nothing changes
\* the table, so the access finds the table of that moment; the access is
\* one step of the sequential map, table and answer; no other step touches
\* the table, and an answer is delivered as the access made it.
C14_RefinesSequentialMap ==
    /\ [][\A t \in DOMAIN task :
            Holds(t) /\ ~Accesses(t) => prices' = prices]_vars
    /\ [][\A t \in DOMAIN task :
            Accesses(t)
              => Sequential(prices, task[t].op, task[t].id, task[t].price,
                            task[t].uuid, prices', task'[t].resp)]_vars
    /\ [][(\A t \in DOMAIN task : ~Accesses(t)) => prices' = prices]_vars
    /\ [][\A t \in DOMAIN task :
            task[t].pc = "respond"
              => task'[t] = task[t] \/ task'[t] = IdleTask]_vars

\* A writer holds the lock over a table with an entry while a reader and
\* another writer, which arrived in that order, wait for it.
C14_Witness ==
    \E w, r, x \in DOMAIN task :
        /\ writer = w /\ task[w].pc = "locked"
        /\ task[r].op \in Readers /\ task[x].op \notin Readers
        /\ waitq = <<r, x>>
        /\ prices # <<>>

\* --------------------------------------------------------------------- C15
\* Task t is queued for the lock.
Queued(t) == Place(t) > 0

\* C15: a handler goes once through the lock. A task holds a guard exactly
\* while it stands before its table access and is queued exactly while it
\* waits; it gets the guard only on arriving or out of the queue, makes its
\* access holding it, and that same step gives the guard back, whatever the
\* answer, NotFound included; with its answer made it neither holds nor
\* asks for the lock again, and the table changes in no other step than the
\* access of a task that holds the write guard.
C15_OneAccessOneGuard ==
    /\ [](\A t \in Tasks :
            /\ Holds(t) <=> task[t].pc = "locked"
            /\ Queued(t) <=> task[t].pc = "waiting"
            /\ task[t].pc \in {"idle", "waiting", "locked", "respond"})
    /\ [][\A t \in Tasks :
            /\ ~Holds(t) /\ Holds(t)' => task[t].pc \in {"idle", "waiting"}
            /\ ~Queued(t) /\ Queued(t)' => task[t].pc = "idle"
            /\ task[t].pc = "waiting" => task'[t].pc \in {"waiting", "locked"}
            /\ task[t].pc = "locked" => task'[t].pc \in {"locked", "respond"}
            /\ task[t].pc = "respond" => task'[t].pc \in {"respond", "idle"}
            /\ Accesses(t) => Holds(t) /\ ~Holds(t)' /\ ~Queued(t)'
            /\ task[t].pc = "respond" => ~Holds(t)' /\ ~Queued(t)']_vars
    /\ [][prices' # prices
            => \E t \in Tasks : Accesses(t) /\ writer = t /\ WantsWrite(t)]_vars

\* An update and a get have both answered NotFound, and the lock is free.
C15_Witness ==
    /\ readers = {} /\ writer = NoTask /\ waitq = <<>>
    /\ \E t, u \in Tasks :
         /\ task[t].pc = "respond" /\ task[t].op = "update_price_by_id"
         /\ task[t].resp.status = NOT_FOUND
         /\ task[u].pc = "respond" /\ task[u].op = "get_price_by_id"
         /\ task[u].resp.status = NOT_FOUND

\* --------------------------------------------------------------------- C16
\* Two operations on one identifier that is in the table are in flight
\* together, m1 in task t and m2 in task x, and t, which got the lock
\* first, makes its access while x waits for the lock.
RaceFirst(t, m1, x, m2) ==
    /\ Access(t, m1)
    /\ x # t
    /\ task[x].op = m2 /\ task[x].pc = "waiting"
    /\ task[x].id = task[t].id
    /\ Has(prices, task[t].id)

\* Task x stays in flight with its arguments.
StillToCome(x) ==
    /\ task'[x].pc \in {"waiting", "locked"}
    /\ task'[x].op = task[x].op
    /\ task'[x].id = task[x].id
    /\ task'[x].price = task[x].price

\* C16: of two updates of one identifier in flight together, the one that
\* gets the write lock first succeeds and leaves its own price, with the
\* other still to come; an update that comes to the lock after an update
\* succeeds and leaves its own price in place of the earlier one, whichever
\* is larger; and a get after the updates answers the price of the update
\* that had the write lock last, so one of the two prices and no other.
C16_LastUpdateWins ==
    [][\A t, x \in Tasks :
         /\ RaceFirst(t, "update_price_by_id", x, "update_price_by_id")
              => /\ task'[t].resp = Response(OK, <<>>)
                 /\ prices' = [prices EXCEPT ![task[t].id] = task[t].price]
                 /\ lastKind'[task[t].id] = "update"
                 /\ lastVal'[task[t].id] = task[t].price
                 /\ StillToCome(x)
         /\ Access(x, "update_price_by_id") /\ lastKind[task[x].id] = "update"
              => /\ Has(prices, task[x].id)
                 /\ prices[task[x].id] = lastVal[task[x].id]
                 /\ task'[x].resp = Response(OK, <<>>)
                 /\ prices' = [prices EXCEPT ![task[x].id] = task[x].price]
                 /\ lastVal'[task[x].id] = task[x].price
         /\ Access(t, "get_price_by_id") /\ lastKind[task[t].id] = "update"
              => /\ prices[task[t].id] = lastVal[task[t].id]
                 /\ task'[t].resp = Response(OK, U64ToString(lastVal[task[t].id]))]_vars

\* Of two updates of one identifier in flight together, the first has made
\* its access and not yet delivered its answer, and the second, with the
\* smaller price, holds the write lock.
C16_Witness ==
    \E t, x \in Tasks : \E u \in DOMAIN prices :
        /\ task[t].op = "update_price_by_id" /\ task[t].pc = "respond"
        /\ task[t].resp.status = OK
        /\ \A v \in Uuids \ {u} : lastKind[v] # "update"
        /\ lastKind[u] = "update"
        /\ task[x].op = "update_price_by_id" /\ task[x].pc = "locked"
        /\ task[x].id = u
        /\ task[x].price < lastVal[u]

\* --------------------------------------------------------------------- C17
\* Table m without the entry of k.
Without(m, k) == [x \in DOMAIN m \ {k} |-> m[x]]

\* An operation in flight on an identifier that a delete removed finds no
\* entry: nothing puts a removed identifier back.
GoneForGood ==
    \A x \in Tasks :
        /\ task[x].op \in ById /\ task[x].pc \in {"waiting", "locked"}
        /\ lastKind[task[x].id] = "delete"
        => ~Has(prices, task[x].id)

\* C17: of two deletes of one identifier in flight together, the one that
\* gets the write lock first answers OK and removes the entry and nothing
\* else, with the other still to come; the delete that comes to the lock
\* after it finds no entry, answers NotFound and removes nothing. So one
\* succeeds, the other does not, and the entry goes once.
C17_OneDeleteSucceeds ==
    /\ []GoneForGood
    /\ [][\A t, x \in Tasks :
            /\ RaceFirst(t, "delete_price", x, "delete_price")
                 => /\ task'[t].resp = Response(OK, <<>>)
                    /\ prices' = Without(prices, task[t].id)
                    /\ lastKind'[task[t].id] = "delete"
                    /\ StillToCome(x)
            /\ Access(x, "delete_price") /\ lastKind[task[x].id] = "delete"
                 => /\ task'[x].resp = Response(NOT_FOUND, <<>>)
                    /\ prices' = prices
                    /\ lastKind' = lastKind]_vars

\* Of two deletes of one identifier in flight together, the first has
\* removed the entry and not yet delivered its OK, and the second holds the
\* write lock.
C17_Witness ==
    \E t, x \in Tasks : \E u \in Uuids :
        /\ task[t].op = "delete_price" /\ task[t].pc = "respond"
        /\ task[t].resp.status = OK
        /\ \A v \in Uuids \ {u} : lastKind[v] # "delete"
        /\ lastKind[u] = "delete"
        /\ task[x].op = "delete_price" /\ task[x].pc = "locked"
        /\ task[x].id = u

\* --------------------------------------------------------------------- C18
\* C18: of an update and a delete of one identifier in flight together,
\* whichever gets the write lock first succeeds: the update leaves its price
\* and the delete removes the entry. The delete that comes after the update
\* finds the entry and succeeds; the update that comes after the delete
\* finds none, answers NotFound and puts nothing in the table. Either way
\* the delete succeeds and the identifier is gone after both.
C18_UpdateAgainstDelete ==
    [][\A t, x \in Tasks :
         /\ RaceFirst(t, "update_price_by_id", x, "delete_price")
              => /\ task'[t].resp = Response(OK, <<>>)
                 /\ prices' = [prices EXCEPT ![task[t].id] = task[t].price]
                 /\ lastKind'[task[t].id] = "update"
                 /\ StillToCome(x)
         /\ RaceFirst(t, "delete_price", x, "update_price_by_id")
              => /\ task'[t].resp = Response(OK, <<>>)
                 /\ prices' = Without(prices, task[t].id)
                 /\ lastKind'[task[t].id] = "delete"
                 /\ StillToCome(x)
         /\ Access(x, "delete_price") /\ lastKind[task[x].id] = "update"
              => /\ Has(prices, task[x].id)
                 /\ task'[x].resp = Response(OK, <<>>)
                 /\ prices' = Without(prices, task[x].id)
                 /\ lastKind'[task[x].id] = "delete"
         /\ Access(x, "update_price_by_id") /\ lastKind[task[x].id] = "delete"
              => /\ ~Has(prices, task[x].id)
                 /\ task'[x].resp = Response(NOT_FOUND, <<>>)
                 /\ prices' = prices
                 /\ lastKind' = lastKind]_vars

\* A delete has removed an entry and not yet delivered its OK while an
\* update of the same identifier, in flight with it, holds the write lock.
C18_Witness ==
    \E t, x \in Tasks : \E u \in Uuids :
        /\ task[t].op = "delete_price" /\ task[t].pc = "respond"
        /\ task[t].resp.status = OK
        /\ \A v \in Uuids \ {u} : lastKind[v] # "delete"
        /\ lastKind[u] = "delete"
        /\ task[x].op = "update_price_by_id" /\ task[x].pc = "locked"
        /\ task[x].id = u

\* --------------------------------------------------------------------- C19
\* Tables m and m2 agree on every identifier but k.
SameBut(m, m2, k) ==
    /\ DOMAIN m \ {k} = DOMAIN m2 \ {k}
    /\ \A v \in DOMAIN m \ {k} : m2[v] = m[v]

\* C19: an access touches the entry of its own identifier at most. A create
\* adds the one entry of its fresh identifier; an update that finds its
\* entry changes that value and keeps the set of identifiers; a delete that
\* finds its entry removes that identifier and no other; an update or a
\* delete that finds none, a get and a list leave the table as it is.
C19_Frame ==
    [][\A t \in Tasks :
         /\ Access(t, "create_price")
              => /\ ~Has(prices, task[t].uuid)
                 /\ DOMAIN prices' = DOMAIN prices \cup {task[t].uuid}
                 /\ prices'[task[t].uuid] = task[t].price
                 /\ SameBut(prices, prices', task[t].uuid)
         /\ Access(t, "update_price_by_id") /\ Has(prices, task[t].id)
              => /\ DOMAIN prices' = DOMAIN prices
                 /\ prices'[task[t].id] = task[t].price
                 /\ SameBut(prices, prices', task[t].id)
         /\ Access(t, "delete_price") /\ Has(prices, task[t].id)
              => /\ DOMAIN prices' = DOMAIN prices \ {task[t].id}
                 /\ SameBut(prices, prices', task[t].id)
         /\ Access(t, "update_price_by_id") /\ ~Has(prices, task[t].id)
              => prices' = prices
         /\ Access(t, "delete_price") /\ ~Has(prices, task[t].id)
              => prices' = prices
         /\ Access(t, "get_price_by_id") \/ Access(t, "get_prices")
              => prices' = prices]_vars

\* A delete has removed one of two entries, the other one is still in the
\* table, and an update of that other one holds the write lock.
C19_Witness ==
    \E t, x \in Tasks : \E u \in Uuids :
        /\ task[t].op = "delete_price" /\ task[t].pc = "respond"
        /\ task[t].resp.status = OK
        /\ lastKind[u] = "delete"
        /\ DOMAIN prices = Uuids \ {u}
        /\ task[x].op = "update_price_by_id" /\ task[x].pc = "locked"
        /\ Has(prices, task[x].id)

====
